---- MODULE Spec2Model ----
(***************************************************************************)
(* gpterm: the terminal loop of src/main.rs and its streaming response     *)
(* assembler.  Text is a sequence of one-byte strings, so that lengths,    *)
(* substring search and cuts at byte offsets are those of the Rust code.   *)
(***************************************************************************)
EXTENDS Integers, Sequences, FiniteSets, TLC

(***************************************************************************)
(* Bounds of the model.                                                    *)
(***************************************************************************)
\* user submissions (";;" lines) in one run
MaxTurns == 2
\* lines read into one pending message
MaxLines == 2
\* frames of one response in SpecStream, frames of a whole run in Spec
MaxFrames == 3
\* chunks one response of SpecFrame is delivered in
MaxChunks == 3

(***************************************************************************)
(* Text helpers: the str methods main uses.                                *)
(***************************************************************************)
Q == "\""
NL == "\n"

\* str::ends_with
EndsWith(s, suf) ==
    /\ Len(s) >= Len(suf)
    /\ SubSeq(s, Len(s) - Len(suf) + 1, Len(s)) = suf

\* true when pat occurs in s at index i
MatchAt(s, i, pat) ==
    /\ i + Len(pat) - 1 <= Len(s)
    /\ \A k \in 1..Len(pat) : s[i + k - 1] = pat[k]

\* str::contains
Contains(s, pat) == \E i \in 1..(Len(s) - Len(pat) + 1) : MatchAt(s, i, pat)

\* index of the first match of pat in s at or after i, or 0
NextMatch(s, pat, i) ==
    LET ms == { j \in i..(Len(s) - Len(pat) + 1) : MatchAt(s, j, pat) }
    IN  IF ms = {} THEN 0 ELSE CHOOSE j \in ms : \A k \in ms : j <= k

RECURSIVE SplitFrom(_, _, _)
SplitFrom(s, sep, start) ==
    LET m == NextMatch(s, sep, start)
    IN  IF m = 0 THEN << SubSeq(s, start, Len(s)) >>
        ELSE << SubSeq(s, start, m - 1) >> \o SplitFrom(s, sep, m + Len(sep))

\* str::split: the pieces between non-overlapping matches, left to right
Split(s, sep) == SplitFrom(s, sep, 1)

RECURSIVE RemoveFrom(_, _, _)
RemoveFrom(s, pat, start) ==
    LET m == NextMatch(s, pat, start)
    IN  IF m = 0 THEN SubSeq(s, start, Len(s))
        ELSE SubSeq(s, start, m - 1) \o RemoveFrom(s, pat, m + Len(pat))

\* str::replace(pat, ""): every non-overlapping match is removed
ReplaceWithEmpty(s, pat) == RemoveFrom(s, pat, 1)

RECURSIVE TrimEndMatches(_, _)
\* str::trim_end_matches: the suffix is removed repeatedly
TrimEndMatches(s, suf) ==
    IF Len(suf) > 0 /\ EndsWith(s, suf)
    THEN TrimEndMatches(SubSeq(s, 1, Len(s) - Len(suf)), suf)
    ELSE s

RECURSIVE Concat(_)
Concat(ss) == IF ss = << >> THEN << >> ELSE Head(ss) \o Concat(Tail(ss))

Last(s) == s[Len(s)]

(***************************************************************************)
(* Literals of the program and of the wire format.                         *)
(***************************************************************************)
SSE_PREFIX == << "d", "a", "t", "a", ":", " " >>
DONE == << "[", "D", "O", "N", "E", "]" >>
EVENT_DELIMITER == << NL, NL >>
MESSAGE_END == << ";", ";", NL >>
EXIT_COMMAND == << "e", "x", "i", "t", NL >>
RESET_COMMAND == << "r", "e", "s", "e", "t" >>

User == "user"
Assistant == "assistant"

\* Option<String> and Option<MessageRole>
NoneStr == [some |-> FALSE, v |-> << >>]
SomeStr(s) == [some |-> TRUE, v |-> s]
NoneRole == [some |-> FALSE, v |-> ""]
SomeRole(r) == [some |-> TRUE, v |-> r]

(***************************************************************************)
(* serde_json::from_str::<CompletionResponse>.  A JSON text is parsed to a *)
(* value, then read as the derived Deserialize reads it: unknown keys are  *)
(* ignored, a missing or ill-typed required field is an error, a null or   *)
(* absent Option field is None, and only whitespace may follow the value.  *)
(* Strings hold no escapes and numbers do not occur in the alphabet of the *)
(* model; a text that does not open with an object is an error (the form   *)
(* of a struct as a JSON array never fits the fragments of a frame).       *)
(***************************************************************************)
WS == { " ", NL, "\t", "\r" }
NULL == << "n", "u", "l", "l" >>

ParseFail == [ok |-> FALSE, val |-> [t |-> "none"], next |-> 0]
ParseOk(v, n) == [ok |-> TRUE, val |-> v, next |-> n]

RECURSIVE SkipWs(_, _)
SkipWs(s, i) == IF i <= Len(s) /\ s[i] \in WS THEN SkipWs(s, i + 1) ELSE i

RECURSIVE StringEnd(_, _)
\* index of the quote closing a string whose text starts at i, or 0
StringEnd(s, i) ==
    IF i > Len(s) THEN 0
    ELSE IF s[i] = Q THEN i
    ELSE IF s[i] = "\\" \/ s[i] = NL THEN 0
    ELSE StringEnd(s, i + 1)

\* s[i] is an opening quote
ParseString(s, i) ==
    LET e == StringEnd(s, i + 1)
    IN  IF e = 0 THEN ParseFail
        ELSE ParseOk([t |-> "str", s |-> SubSeq(s, i + 1, e - 1)], e + 1)

RECURSIVE ParseValue(_, _)
RECURSIVE ParseMembers(_, _, _)
RECURSIVE ParseElements(_, _, _)

ParseValue(s, i0) ==
    LET i == SkipWs(s, i0)
    IN  IF i > Len(s) THEN ParseFail
        ELSE IF s[i] = Q THEN ParseString(s, i)
        ELSE IF s[i] = "{" THEN
            LET j == SkipWs(s, i + 1)
            IN  IF j <= Len(s) /\ s[j] = "}"
                THEN ParseOk([t |-> "obj", m |-> << >>], j + 1)
                ELSE ParseMembers(s, j, << >>)
        ELSE IF s[i] = "[" THEN
            LET j == SkipWs(s, i + 1)
            IN  IF j <= Len(s) /\ s[j] = "]"
                THEN ParseOk([t |-> "arr", a |-> << >>], j + 1)
                ELSE ParseElements(s, j, << >>)
        ELSE IF MatchAt(s, i, NULL) THEN ParseOk([t |-> "null"], i + Len(NULL))
        ELSE ParseFail

\* the members of an object after "{" or ","; i is at the key
ParseMembers(s, i, acc) ==
    IF i > Len(s) \/ s[i] # Q THEN ParseFail
    ELSE LET k == ParseString(s, i)
         IN  IF ~k.ok THEN ParseFail
             ELSE LET c == SkipWs(s, k.next)
                  IN  IF c > Len(s) \/ s[c] # ":" THEN ParseFail
                      ELSE LET v == ParseValue(s, c + 1)
                           IN  IF ~v.ok THEN ParseFail
                               ELSE LET e == SkipWs(s, v.next)
                                        acc2 == Append(acc, [k |-> k.val.s, v |-> v.val])
                                    IN  IF e > Len(s) THEN ParseFail
                                        ELSE IF s[e] = "}"
                                             THEN ParseOk([t |-> "obj", m |-> acc2], e + 1)
                                        ELSE IF s[e] = ","
                                             THEN ParseMembers(s, SkipWs(s, e + 1), acc2)
                                        ELSE ParseFail

\* the elements of an array after "[" or ","
ParseElements(s, i, acc) ==
    LET v == ParseValue(s, i)
    IN  IF ~v.ok THEN ParseFail
        ELSE LET e == SkipWs(s, v.next)
                 acc2 == Append(acc, v.val)
             IN  IF e > Len(s) THEN ParseFail
                 ELSE IF s[e] = "]" THEN ParseOk([t |-> "arr", a |-> acc2], e + 1)
                 ELSE IF s[e] = "," THEN ParseElements(s, e + 1, acc2)
                 ELSE ParseFail

\* a whole text as one JSON value, nothing but whitespace after it
ParseJson(s) ==
    LET v == ParseValue(s, 1)
    IN  IF v.ok /\ SkipWs(s, v.next) > Len(s) THEN v ELSE ParseFail

\* the values an object holds under key k, in order
Field(obj, k) == SelectSeq(obj.m, LAMBDA e : e.k = k)

K_id == << "i", "d" >>
K_choices == << "c", "h", "o", "i", "c", "e", "s" >>
K_delta == << "d", "e", "l", "t", "a" >>
K_content == << "c", "o", "n", "t", "e", "n", "t" >>
K_role == << "r", "o", "l", "e" >>
V_user == << "u", "s", "e", "r" >>
V_assistant == << "a", "s", "s", "i", "s", "t", "a", "n", "t" >>

DeFail == [ok |-> FALSE]

\* Option<String>: absent or null is None, a string is Some, else an error
DeOptString(fs) ==
    IF Len(fs) = 0 THEN [ok |-> TRUE, v |-> NoneStr]
    ELSE IF Len(fs) > 1 THEN DeFail
    ELSE IF fs[1].v.t = "null" THEN [ok |-> TRUE, v |-> NoneStr]
    ELSE IF fs[1].v.t = "str" THEN [ok |-> TRUE, v |-> SomeStr(fs[1].v.s)]
    ELSE DeFail

\* Option<MessageRole> with rename_all = "lowercase"
DeOptRole(fs) ==
    IF Len(fs) = 0 THEN [ok |-> TRUE, v |-> NoneRole]
    ELSE IF Len(fs) > 1 THEN DeFail
    ELSE IF fs[1].v.t = "null" THEN [ok |-> TRUE, v |-> NoneRole]
    ELSE IF fs[1].v.t = "str" /\ fs[1].v.s = V_user
         THEN [ok |-> TRUE, v |-> SomeRole(User)]
    ELSE IF fs[1].v.t = "str" /\ fs[1].v.s = V_assistant
         THEN [ok |-> TRUE, v |-> SomeRole(Assistant)]
    ELSE DeFail

\* struct CompletionDelta { content, role }
DeDelta(v) ==
    IF v.t # "obj" THEN DeFail
    ELSE LET c == DeOptString(Field(v, K_content))
             r == DeOptRole(Field(v, K_role))
         IN  IF c.ok /\ r.ok
             THEN [ok |-> TRUE, v |-> [content |-> c.v, role |-> r.v]]
             ELSE DeFail

\* struct CompletionChoice { delta }
DeChoice(v) ==
    IF v.t # "obj" THEN DeFail
    ELSE LET d == Field(v, K_delta)
         IN  IF Len(d) = 1 THEN DeDelta(d[1].v) ELSE DeFail

\* struct CompletionResponse { id, choices }
DeResponse(v) ==
    IF v.t # "obj" THEN DeFail
    ELSE LET i == Field(v, K_id)
             c == Field(v, K_choices)
         IN  IF Len(i) # 1 \/ Len(c) # 1 THEN DeFail
             ELSE IF i[1].v.t # "str" \/ c[1].v.t # "arr" THEN DeFail
             ELSE LET ds == [n \in 1..Len(c[1].v.a) |-> DeChoice(c[1].v.a[n])]
                  IN  IF \A n \in 1..Len(ds) : ds[n].ok
                      THEN [ok |-> TRUE,
                            v |-> [id |-> i[1].v.s,
                                   choices |-> [n \in 1..Len(ds) |-> ds[n].v]]]
                      ELSE DeFail

\* serde_json::from_str::<CompletionResponse>(&response_data)
from_str(response_data) ==
    LET j == ParseJson(response_data)
    IN  IF j.ok THEN DeResponse(j.val) ELSE DeFail

(***************************************************************************)
(* The wire format the transport delivers: "data: " + JSON + blank line,   *)
(* and the sentinel frame "data: [DONE]".                                  *)
(***************************************************************************)
JString(s) == << Q >> \o s \o << Q >>
JMember(k, v) == JString(k) \o << ":" >> \o v

\* the JSON text of a delta object with optional role and content
JsonDelta(role, content) ==
    LET r == IF role.some
             THEN JMember(K_role, JString(IF role.v = User THEN V_user ELSE V_assistant))
             ELSE << >>
        c == IF content.some THEN JMember(K_content, JString(content.v)) ELSE << >>
        sep == IF role.some /\ content.some THEN << "," >> ELSE << >>
    IN  << "{" >> \o r \o sep \o c \o << "}" >>

\* the JSON text of a response with one choice
JsonResponse(id, role, content) ==
    << "{" >> \o JMember(K_id, JString(id)) \o << "," >>
      \o JMember(K_choices,
                 << "[", "{" >> \o JMember(K_delta, JsonDelta(role, content))
                     \o << "}", "]" >>)
      \o << "}" >>

\* a response whose choices sequence is empty
JsonNoChoices(id) ==
    << "{" >> \o JMember(K_id, JString(id)) \o << "," >>
      \o JMember(K_choices, << "[", "]" >>) \o << "}" >>

\* the raw bytes of one event: prefix, payload, delimiter
RawFrame(payload) == SSE_PREFIX \o payload \o EVENT_DELIMITER

SentinelFrame == SSE_PREFIX \o DONE

(***************************************************************************)
(* Inputs of the model.                                                    *)
(***************************************************************************)
ID_A == << "a" >>
ID_B == << "b" >>

\* a delta as the server means it: the fields of the source JSON
Delta(id, role, content) == [id |-> id, role |-> role, content |-> content]

\* the wire payload of a delta
PayloadOf(f) == JsonResponse(f.id, f.role, f.content)

\* the deltas the server sends in Spec and SpecStream
DeltaA == Delta(ID_A, NoneRole, SomeStr(<< "H" >>))
DeltaA2 == Delta(ID_A, NoneRole, SomeStr(<< "i" >>))
DeltaB == Delta(ID_B, SomeRole(User), NoneStr)
\* a frame that is delimited but is no JSON document
PayloadBad == << "{", Q, "i", "d", Q, ":", Q, "a" >>

\* further deltas of SpecFrame: with a role, with content holding the
\* prefix text, with content holding the sentinel text
DeltaX == Delta(ID_A, NoneRole, SomeStr(<< "x" >>))
DeltaRole == Delta(ID_A, SomeRole(Assistant), SomeStr(<< "H", "i" >>))
DeltaPrefixText == Delta(ID_A, NoneRole, SomeStr(SSE_PREFIX \o << "x" >>))
DeltaDoneText == Delta(ID_A, NoneRole, SomeStr(<< "a", " " >> \o DONE))

SentinelEvent == SentinelFrame \o EVENT_DELIMITER

\* the events of SpecStream
FrameKinds ==
    { RawFrame(PayloadOf(DeltaA)), RawFrame(PayloadOf(DeltaA2)),
      RawFrame(PayloadOf(DeltaB)), RawFrame(PayloadBad), SentinelEvent }

\* the events of Spec
ProgramFrames == { RawFrame(PayloadOf(DeltaA)), RawFrame(PayloadBad) }

\* the well-formed frames of SpecFrame
ValidDeltas == { DeltaX, DeltaRole, DeltaPrefixText, DeltaDoneText }

\* the responses of SpecFrame: one frame, a frame and the sentinel, two
\* frames, and a response without choices
FrameWires ==
    { RawFrame(PayloadOf(f)) : f \in ValidDeltas }
        \cup { RawFrame(PayloadOf(DeltaX)) \o SentinelEvent,
               RawFrame(PayloadOf(DeltaX)) \o RawFrame(PayloadOf(DeltaA2)),
               RawFrame(JsonNoChoices(ID_A)) }

\* all sequences over S of length at most n
SeqsUpTo(S, n) == UNION { [1..m -> S] : m \in 0..n }

\* the lines read_line returns: newline-terminated lines, and a last line
\* that the end of input cuts short
Lines ==
    { << "h", "i" >> \o MESSAGE_END, RESET_COMMAND \o << NL >>, RESET_COMMAND,
      EXIT_COMMAND }

\* cuid2::create_id(): a fresh id per call, never an id the server sends
create_id(n) == << "c", "u", "i", "d" >> \o [k \in 1..n |-> "'"]

CompletionError == { "RequestSerialize", "Unauthorized", "OutOfTokens", "UnknownRequest" }

(***************************************************************************)
(* State.                                                                  *)
(***************************************************************************)
VARIABLES
    pc,               \* where main is: "prompt", "request", "stream", "frames",
                      \* "exited", "panicked"
    fault,            \* why the process panicked, "" while it has not
    debug_assertions, \* cfg!(debug_assertions) of the build
    message,          \* the pending input
    nlines,           \* lines read into message
    conversation,     \* Vec<Message>
    turns,            \* user messages submitted so far
    res_stream,       \* bytes of the response not yet delivered
    frames_sent,      \* frames the server has sent over the run
    nchunks,          \* chunks delivered of this response
    response_bytes,   \* all bytes of this response
    partial_message,  \* the partial-frame buffer
    raw_res,          \* the chunk being processed
    responses,        \* its frame candidates after the filter
    idx,              \* candidates of the chunk already processed
    decoded,          \* deltas decoded from this response, in order
    turn_start,       \* length of the conversation when the response opened
    warnings,         \* "[WARN]" lines printed for this response
    leftover,         \* the response before this one ended with text in its buffer
    env_var,          \* the value of OPENAI_API_TOKEN in the environment
    file_system,      \* the folders of the file system and their token files
    call,             \* the last call of a credential function
    key_result,       \* what get_openai_api_key returned last
    save_result       \* what save_openai_api_key returned last

vars ==
    << pc, fault, debug_assertions, message, nlines, conversation, turns,
       res_stream, frames_sent, nchunks, response_bytes, partial_message,
       raw_res, responses, idx, decoded, turn_start, warnings, leftover,
       env_var, file_system, call, key_result, save_result >>

credVars == << env_var, file_system, call, key_result, save_result >>

inputVars == << message, nlines, turns >>
streamVars == << res_stream, frames_sent, nchunks, response_bytes >>
chunkVars == << raw_res, responses, idx >>

(***************************************************************************)
(* The stream loop of main, lines 119-165.                                 *)
(***************************************************************************)
\* a filter that forgets the sentinel
KeepFrameLengthOnly(r) == Len(r) > 6

\* .filter(|r| r.len() > 6 && !r.contains("[DONE]"))
KeepFrame(r) == Len(r) > 6 /\ ~Contains(r, DONE)

\* the candidates of a chunk: split on the blank line, then filter
SplitResponses(chunk) == SelectSeq(Split(chunk, EVENT_DELIMITER), KeepFrame)

\* a candidate text that never gets the buffer in front
ResponseDataUnprefixed(response, partial, i) == ReplaceWithEmpty(response, SSE_PREFIX)

\* response.replace("data: ", "") and the buffer in front of candidate 0
ResponseData(response, partial, i) ==
    LET stripped == ReplaceWithEmpty(response, SSE_PREFIX)
    IN  IF partial # << >> /\ i = 0 THEN partial \o stripped ELSE stripped

\* a merge that puts the new fragment in front of the accumulated text
MergePrepend(conv, chat_id, delta) ==
    LET content == IF delta.content.some THEN delta.content.v ELSE << >>
    IN  IF conv # << >> /\ Last(conv).id = chat_id
        THEN LET m == Last(conv)
             IN  Append(SubSeq(conv, 1, Len(conv) - 1),
                        [m EXCEPT !.content = content \o m.content])
        ELSE Append(conv,
                    [id |-> chat_id,
                     role |-> IF delta.role.some THEN delta.role.v ELSE Assistant,
                     content |-> content])

\* a merge that extends the last message whatever its id
MergeIgnoreId(conv, chat_id, delta) ==
    LET content == IF delta.content.some THEN delta.content.v ELSE << >>
    IN  IF conv # << >>
        THEN LET m == Last(conv)
             IN  Append(SubSeq(conv, 1, Len(conv) - 1),
                        [m EXCEPT !.content = m.content \o content])
        ELSE Append(conv,
                    [id |-> chat_id,
                     role |-> IF delta.role.some THEN delta.role.v ELSE Assistant,
                     content |-> content])

\* a merge that pops the last message before it looks at its id
MergePopFirst(conv, chat_id, delta) ==
    LET content == IF delta.content.some THEN delta.content.v ELSE << >>
        rest == SubSeq(conv, 1, Len(conv) - 1)
    IN  IF conv # << >> /\ Last(conv).id = chat_id
        THEN LET m == Last(conv)
             IN  Append(rest, [m EXCEPT !.content = m.content \o content])
        ELSE Append(rest,
                    [id |-> chat_id,
                     role |-> IF delta.role.some THEN delta.role.v ELSE Assistant,
                     content |-> content])

\* lines 147-164: extend the last message, or append a new one
Merge(conv, chat_id, delta) ==
    LET content == IF delta.content.some THEN delta.content.v ELSE << >>
    IN  IF conv # << >> /\ Last(conv).id = chat_id
        THEN LET m == Last(conv)
             IN  Append(SubSeq(conv, 1, Len(conv) - 1),
                        [m EXCEPT !.content = m.content \o content])
        ELSE Append(conv,
                    [id |-> chat_id,
                     role |-> IF delta.role.some THEN delta.role.v ELSE Assistant,
                     content |-> content])

(***************************************************************************)
(* Actions: one per wait point of main and one per pass of the for loop.   *)
(***************************************************************************)
\* lines 84-112: read a line, match the commands, and once the input ends
\* with ";;\n" append the user message
ReadLine(line) ==
    /\ pc = "prompt"
    /\ nlines < MaxLines
    /\ LET m == message \o line
       IN  IF m = EXIT_COMMAND
           THEN /\ pc' = "exited"
                /\ message' = m
                /\ nlines' = nlines + 1
                /\ UNCHANGED << conversation, turns >>
           ELSE IF m = RESET_COMMAND
           THEN /\ conversation' = << >>
                /\ message' = << >>
                /\ nlines' = 0
                /\ UNCHANGED << pc, turns >>
           ELSE IF EndsWith(m, MESSAGE_END)
           THEN /\ turns < MaxTurns
                /\ conversation' =
                       Append(conversation,
                              [id |-> create_id(turns + 1),
                               role |-> User,
                               content |-> TrimEndMatches(m, MESSAGE_END)])
                /\ turns' = turns + 1
                /\ message' = m
                /\ nlines' = nlines + 1
                /\ pc' = "request"
           ELSE /\ message' = m
                /\ nlines' = nlines + 1
                /\ UNCHANGED << pc, conversation, turns >>
    /\ UNCHANGED << credVars, leftover >>
    /\ UNCHANGED << fault, debug_assertions, streamVars, partial_message,
                    chunkVars, decoded, turn_start, warnings >>

\* a request that leaves the buffer of the response before as it was
GetCompletionOkBufferKept(bytes, nframes) ==
    /\ pc = "request"
    /\ pc' = "stream"
    /\ res_stream' = bytes
    /\ response_bytes' = bytes
    /\ frames_sent' = frames_sent + nframes
    /\ nchunks' = 0
    /\ partial_message' = partial_message
    /\ decoded' = << >>
    /\ turn_start' = Len(conversation)
    /\ warnings' = 0
    /\ UNCHANGED << credVars, leftover >>
    /\ UNCHANGED << fault, debug_assertions, inputVars, conversation, chunkVars >>

\* lines 115-117: get_completion returns Ok; the buffer starts empty
GetCompletionOk(bytes, nframes) ==
    /\ pc = "request"
    /\ pc' = "stream"
    /\ res_stream' = bytes
    /\ response_bytes' = bytes
    /\ frames_sent' = frames_sent + nframes
    /\ nchunks' = 0
    /\ partial_message' = << >>
    /\ decoded' = << >>
    /\ turn_start' = Len(conversation)
    /\ warnings' = 0
    /\ UNCHANGED << credVars, leftover >>
    /\ UNCHANGED << fault, debug_assertions, inputVars, conversation, chunkVars >>

\* line 115: get_completion returns Err(e) and unwrap panics
GetCompletionErr(e) ==
    /\ pc = "request"
    /\ pc' = "panicked"
    /\ fault' = e
    /\ UNCHANGED << credVars, leftover >>
    /\ UNCHANGED << debug_assertions, inputVars, conversation, streamVars,
                    partial_message, chunkVars, decoded, turn_start, warnings >>

\* lines 119-124: the stream yields the next k bytes as one chunk.  The
\* bytes of the model are ASCII, so str::from_utf8 succeeds on every chunk.
NextChunk(k) ==
    /\ pc = "stream"
    /\ k \in 1..Len(res_stream)
    /\ LET chunk == SubSeq(res_stream, 1, k)
           rs == SplitResponses(chunk)
       IN  /\ raw_res' = chunk
           /\ responses' = rs
           /\ pc' = IF rs = << >> THEN "stream" ELSE "frames"
    /\ idx' = 0
    /\ res_stream' = SubSeq(res_stream, k + 1, Len(res_stream))
    /\ nchunks' = nchunks + 1
    /\ UNCHANGED << credVars, leftover >>
    /\ UNCHANGED << fault, debug_assertions, inputVars, conversation, frames_sent,
                    response_bytes, partial_message, decoded, turn_start, warnings >>

\* a buffer that a successful decode leaves as it was
PartialKeptAfterDecode(partial, response_data, ok) ==
    IF ok THEN partial ELSE partial \o response_data

\* a buffer that holds one fragment: a failed decode of buffered text
\* empties it
PartialDroppedOnFailure(partial, response_data, ok) ==
    IF ~ok /\ partial = << >> THEN response_data ELSE << >>

\* lines 136 and 140: the buffer after the candidate was given to from_str
PartialAfterDecode(partial, response_data, ok) ==
    IF ok THEN << >> ELSE partial \o response_data

\* lines 126-165: one pass of the for loop over the candidates
ProcessFrame ==
    /\ pc = "frames"
    /\ LET response_data == ResponseData(responses[idx + 1], partial_message, idx)
           d == from_str(response_data)
       IN  IF d.ok
           THEN /\ partial_message' = PartialAfterDecode(partial_message, response_data, TRUE)
                /\ IF Len(d.v.choices) = 0
                   THEN \* d.choices.remove(0) panics on an empty Vec
                        /\ pc' = "panicked"
                        /\ fault' = "remove"
                        /\ UNCHANGED << conversation, decoded >>
                   ELSE /\ conversation' = Merge(conversation, d.v.id, d.v.choices[1])
                        /\ decoded' = Append(decoded,
                                             [id |-> d.v.id,
                                              role |-> d.v.choices[1].role,
                                              content |-> d.v.choices[1].content])
                        /\ pc' = IF idx + 1 = Len(responses) THEN "stream" ELSE "frames"
                        /\ UNCHANGED fault
                /\ UNCHANGED warnings
           ELSE \* the text is kept and the loop over the chunk is left
                /\ partial_message' = PartialAfterDecode(partial_message, response_data, FALSE)
                /\ warnings' = IF debug_assertions THEN warnings + 1 ELSE warnings
                /\ pc' = "stream"
                /\ UNCHANGED << fault, conversation, decoded >>
    /\ idx' = idx + 1
    /\ UNCHANGED << credVars, leftover >>
    /\ UNCHANGED << debug_assertions, inputVars, streamVars, raw_res, responses,
                    turn_start >>

\* the move from the while loop back to the prompt, lines 166-170 and 82
BackToPrompt ==
    /\ pc' = "prompt"
    /\ message' = << >>
    /\ nlines' = 0
    /\ res_stream' = << >>
    /\ response_bytes' = << >>
    /\ nchunks' = 0
    /\ raw_res' = << >>
    /\ responses' = << >>
    /\ idx' = 0
    /\ decoded' = << >>
    /\ warnings' = 0
    /\ leftover' = (partial_message # << >>)
    /\ UNCHANGED credVars
    /\ UNCHANGED << fault, debug_assertions, conversation, turns, frames_sent,
                    partial_message, turn_start >>

\* line 119: the stream is exhausted, next() is None
StreamEnd ==
    /\ pc = "stream"
    /\ res_stream = << >>
    /\ BackToPrompt

\* line 119: next() is Some(Err(_)), the connection broke
StreamError ==
    /\ pc = "stream"
    /\ res_stream # << >>
    /\ BackToPrompt

(***************************************************************************)
(* The credential functions, over the environment variable and the part of *)
(* the file system they touch: each folder and the token file in it.       *)
(***************************************************************************)
TOKEN_VARIABLE == "OPENAI_API_TOKEN"
APP_FOLDER == ".gpterm"
TOKEN_FILE == "token"

\* PathBuf::new(): it does not exist and cannot be created; joined with a
\* file name it names that file in the working directory
EMPTY_PATH == ""
\* a folder whose parent is missing
ORPHAN_FOLDER == "missing/.gpterm"
Folders == { EMPTY_PATH, APP_FOLDER, ORPHAN_FOLDER }

Keys == { << "s", "k", "1" >>, << "s", "k", "2" >> }

NoFile == [exists |-> FALSE, content |-> << >>, readable |-> FALSE, writable |-> FALSE]
File(c, r, w) == [exists |-> TRUE, content |-> c, readable |-> r, writable |-> w]
Files == { NoFile } \cup { File(c, r, w) : c \in Keys, r \in BOOLEAN, w \in BOOLEAN }

\* Path::exists of a folder
exists(fsys, folder) == fsys[folder].dir

\* Path::join(folder, TOKEN_FILE), looked up
TokenFileAt(fsys, folder) == fsys[folder].token

\* fs::read_to_string
read_to_string(f) ==
    IF f.exists /\ f.readable THEN [ok |-> TRUE, v |-> f.content] ELSE [ok |-> FALSE, v |-> << >>]

\* fs::create_dir of a folder that does not exist: it needs a name and an
\* existing parent
create_dir(fsys, folder) ==
    IF folder = APP_FOLDER
    THEN [ok |-> TRUE, fs |-> [fsys EXCEPT ![folder] = [dir |-> TRUE, token |-> NoFile]]]
    ELSE [ok |-> FALSE, fs |-> fsys]

\* fs::write of the token file: creates it, or replaces the content of a
\* file that may be written
write(fsys, folder, contents) ==
    LET f == TokenFileAt(fsys, folder)
    IN  IF ~f.exists
        THEN [ok |-> TRUE, fs |-> [fsys EXCEPT ![folder].token = File(contents, TRUE, TRUE)]]
        ELSE IF f.writable
        THEN [ok |-> TRUE, fs |-> [fsys EXCEPT ![folder].token.content = contents]]
        ELSE [ok |-> FALSE, fs |-> fsys]

\* a resolver that looks at the token file before the environment
get_openai_api_key_file_first(env, fsys, local_app_folder) ==
    LET token == read_to_string(TokenFileAt(fsys, local_app_folder))
    IN  IF token.ok THEN SomeStr(token.v)
        ELSE IF env.some THEN SomeStr(env.v)
        ELSE NoneStr

get_openai_api_key(env, fsys, local_app_folder) ==
    IF env.some THEN SomeStr(env.v)
    ELSE LET path_to_token_file == TokenFileAt(fsys, local_app_folder)
         IN  IF ~path_to_token_file.exists THEN NoneStr
             ELSE LET token == read_to_string(path_to_token_file)
                  IN  IF token.ok THEN SomeStr(token.v) ELSE NoneStr

\* a save that never creates the folder
save_openai_api_key_no_create_dir(fsys, local_app_folder, api_key) ==
    IF ~exists(fsys, local_app_folder)
    THEN [ok |-> FALSE, fs |-> fsys]
    ELSE write(fsys, local_app_folder, api_key)

save_openai_api_key(fsys, local_app_folder, api_key) ==
    LET made == IF ~exists(fsys, local_app_folder)
                THEN create_dir(fsys, local_app_folder)
                ELSE [ok |-> TRUE, fs |-> fsys]
    IN  IF ~made.ok THEN [ok |-> FALSE, fs |-> fsys]
        ELSE write(made.fs, local_app_folder, api_key)

NoCall == [op |-> "none", folder |-> EMPTY_PATH, key |-> << >>]

\* lines 231-246, called as main and the tests call it
GetKey(folder) ==
    /\ pc = "credentials"
    /\ key_result' = get_openai_api_key(env_var, file_system, folder)
    /\ call' = [op |-> "get", folder |-> folder, key |-> << >>]
    /\ UNCHANGED << env_var, file_system, save_result >>
    /\ UNCHANGED << pc, fault, debug_assertions, inputVars, conversation, streamVars,
                    partial_message, chunkVars, decoded, turn_start, warnings,
                    leftover >>

\* lines 284-293
SaveKey(folder, api_key) ==
    /\ pc = "credentials"
    /\ LET r == save_openai_api_key(file_system, folder, api_key)
       IN  /\ save_result' = IF r.ok THEN "Ok" ELSE "Err"
           /\ file_system' = r.fs
    /\ call' = [op |-> "save", folder |-> folder, key |-> api_key]
    /\ UNCHANGED << env_var, key_result >>
    /\ UNCHANGED << pc, fault, debug_assertions, inputVars, conversation, streamVars,
                    partial_message, chunkVars, decoded, turn_start, warnings,
                    leftover >>

\* the file systems a run may start in: a missing folder holds no file, the
\* empty path is no folder, and the orphan folder is missing
FileSystems ==
    { f \in [Folders -> [dir : BOOLEAN, token : Files]] :
        /\ ~f[EMPTY_PATH].dir
        /\ ~f[ORPHAN_FOLDER].dir
        /\ \A d \in { APP_FOLDER, ORPHAN_FOLDER } : ~f[d].dir => f[d].token = NoFile }

\* the credentials once main has resolved them: the key came from the
\* environment
CredentialsResolved ==
    /\ env_var = SomeStr(<< "s", "k", "1" >>)
    /\ file_system = [d \in Folders |-> [dir |-> FALSE, token |-> NoFile]]
    /\ call = [op |-> "get", folder |-> APP_FOLDER, key |-> << >>]
    /\ key_result = SomeStr(<< "s", "k", "1" >>)
    /\ save_result = ""

(***************************************************************************)
(* SpecKey: the credential functions called in any order on any folder,    *)
(* from any environment and file system.                                   *)
(***************************************************************************)
InitKey ==
    /\ pc = "credentials"
    /\ fault = ""
    /\ debug_assertions = FALSE
    /\ message = << >>
    /\ nlines = 0
    /\ conversation = << >>
    /\ turns = 0
    /\ res_stream = << >>
    /\ frames_sent = 0
    /\ nchunks = 0
    /\ response_bytes = << >>
    /\ partial_message = << >>
    /\ raw_res = << >>
    /\ responses = << >>
    /\ idx = 0
    /\ decoded = << >>
    /\ turn_start = 0
    /\ warnings = 0
    /\ leftover = FALSE
    /\ env_var \in { NoneStr } \cup { SomeStr(k) : k \in Keys }
    /\ file_system \in FileSystems
    /\ call = NoCall
    /\ key_result = NoneStr
    /\ save_result = ""

NextKey ==
    \/ \E folder \in Folders : GetKey(folder)
    \/ \E folder \in Folders, k \in Keys : SaveKey(folder, k)

SpecKey == InitKey /\ [][NextKey]_vars

(***************************************************************************)
(* Spec: the whole program.  Every chunk holds complete events.            *)
(***************************************************************************)
Init ==
    /\ pc = "prompt"
    /\ fault = ""
    /\ debug_assertions \in BOOLEAN
    /\ message = << >>
    /\ nlines = 0
    /\ conversation = << >>
    /\ turns = 0
    /\ res_stream = << >>
    /\ frames_sent = 0
    /\ nchunks = 0
    /\ response_bytes = << >>
    /\ partial_message = << >>
    /\ raw_res = << >>
    /\ responses = << >>
    /\ idx = 0
    /\ decoded = << >>
    /\ turn_start = 0
    /\ warnings = 0
    /\ leftover = FALSE
    /\ CredentialsResolved

\* the offsets at which an event of w ends
EventEnds(w) == { i \in 2..Len(w) : w[i - 1] = NL /\ w[i] = NL }

TransportErrors == { "Unauthorized", "OutOfTokens", "UnknownRequest" }

Next ==
    \/ \E line \in Lines : ReadLine(line)
    \/ \E fs \in SeqsUpTo(ProgramFrames, MaxFrames - frames_sent) :
           GetCompletionOk(Concat(fs), Len(fs))
    \/ \E e \in TransportErrors : GetCompletionErr(e)
    \/ \E k \in EventEnds(res_stream) : NextChunk(k)
    \/ ProcessFrame
    \/ StreamEnd
    \/ StreamError

Spec == Init /\ [][Next]_vars

(***************************************************************************)
(* SpecStream: one response of up to MaxFrames events, delivered in chunks *)
(* of complete events.  SpecFrame: one response of one frame, cut into     *)
(* chunks at any bytes.  Both start where the first user message has been  *)
(* appended and the request is about to be sent.                           *)
(***************************************************************************)
InitResponse ==
    /\ pc = "request"
    /\ fault = ""
    /\ debug_assertions = FALSE
    /\ message = << "h", "i" >> \o MESSAGE_END
    /\ nlines = 1
    /\ conversation = << [id |-> create_id(1), role |-> User, content |-> << "h", "i" >>] >>
    /\ turns = 1
    /\ res_stream = << >>
    /\ frames_sent = 0
    /\ nchunks = 0
    /\ response_bytes = << >>
    /\ partial_message = << >>
    /\ raw_res = << >>
    /\ responses = << >>
    /\ idx = 0
    /\ decoded = << >>
    /\ turn_start = 0
    /\ warnings = 0
    /\ leftover = FALSE
    /\ CredentialsResolved

NextStream ==
    \/ \E fs \in SeqsUpTo(FrameKinds, MaxFrames) : GetCompletionOk(Concat(fs), Len(fs))
    \/ \E k \in EventEnds(res_stream) : NextChunk(k)
    \/ ProcessFrame
    \/ StreamEnd
    \/ StreamError

SpecStream == InitResponse /\ [][NextStream]_vars

\* a response comes in at most MaxChunks chunks: the last one is the rest
ChunkSizes(rest, n) ==
    IF n + 1 < MaxChunks THEN 1..Len(rest)
    ELSE IF n + 1 = MaxChunks THEN { Len(rest) }
    ELSE {}

NextFrame ==
    \/ \E w \in FrameWires : GetCompletionOk(w, 1)
    \/ \E k \in ChunkSizes(res_stream, nchunks) : NextChunk(k)
    \/ ProcessFrame
    \/ StreamEnd
    \/ StreamError

SpecFrame == InitResponse /\ [][NextFrame]_vars

(***************************************************************************)
(* Properties.                                                             *)
(***************************************************************************)
\* the content fragment of a delta, an absent one as the empty text
FragmentOf(d) == IF d.content.some THEN d.content.v ELSE << >>

\* the fragments of the deltas decoded from this response, joined in order
DecodedContent == Concat([i \in 1..Len(decoded) |-> FragmentOf(decoded[i])])

\* the deltas decoded from this response all carry one turn_id
SameTurn == \A i \in 1..Len(decoded) : decoded[i].id = decoded[1].id

\* the positions of the messages that carry id t
MessagesWithId(t) == { i \in 1..Len(conversation) : conversation[i].id = t }

\* a step in which a decoded delta is merged
MergeStep == pc = "frames" /\ Len(decoded') = Len(decoded) + 1

\* C1: when all deltas decoded from a response share one turn_id, however
\* the frames were grouped into chunks, the conversation holds exactly one
\* message with that id, the one message added since the response opened,
\* and its content is the deltas' fragments joined in arrival order.
C1_MergeCorrectness ==
    (decoded # << >> /\ SameTurn) =>
        /\ MessagesWithId(decoded[1].id) = { Len(conversation) }
        /\ Len(conversation) = turn_start + 1
        /\ Last(conversation).content = DecodedContent

\* two different fragments of one turn, decoded from two chunks
C1_Witness ==
    /\ Len(decoded) = 2
    /\ SameTurn
    /\ nchunks = 2
    /\ decoded[1].content # decoded[2].content
    /\ Last(conversation).content = << "H", "i" >>

\* C3: a merge never changes a message that is not the last one; and when
\* the delta's turn_id is not the id of the last message, the merge leaves
\* every message as it is and appends one message with id = turn_id.
C3_TurnIsolation ==
    [][MergeStep =>
        LET d == Last(decoded')
            n == Len(conversation)
        IN  /\ Len(conversation') >= n
            /\ \A i \in 1..(n - 1) : conversation'[i] = conversation[i]
            /\ (n = 0 \/ conversation[n].id # d.id) =>
                   /\ Len(conversation') = n + 1
                   /\ SubSeq(conversation', 1, n) = conversation
                   /\ conversation'[n + 1].id = d.id]_vars

\* a turn's message, then a message of another turn, then a third message
\* for a delta that carries the first turn's id again
C3_Witness ==
    /\ Len(decoded) = 3
    /\ decoded[1].id = ID_A
    /\ decoded[2].id = ID_B
    /\ decoded[3].id = ID_A
    /\ Len(conversation) = turn_start + 3
    /\ conversation[turn_start + 1].content = FragmentOf(decoded[1])

\* C6: a chunk that holds only the sentinel frame yields no candidate, so
\* nothing is decoded or merged, and the buffer is as it was.
C6_SentinelFiltering ==
    [][(pc = "stream" /\ nchunks' = nchunks + 1 /\ raw_res' = SentinelEvent) =>
        /\ responses' = << >>
        /\ pc' = "stream"
        /\ partial_message' = partial_message
        /\ conversation' = conversation
        /\ decoded' = decoded]_vars

\* the sentinel chunk has been taken while the buffer held a fragment
C6_Witness ==
    /\ raw_res = SentinelEvent
    /\ pc = "stream"
    /\ partial_message # << >>

\* the deltas that feeding a whole response as one chunk decodes from its
\* first candidate
UnsplitDeltas(bytes) ==
    LET rs == SplitResponses(bytes)
        d == from_str(ResponseData(rs[1], << >>, 0))
    IN  IF rs # << >> /\ d.ok /\ Len(d.v.choices) > 0
        THEN << Delta(d.v.id, d.v.choices[1].role, d.v.choices[1].content) >>
        ELSE << >>

\* the raw bytes of the well-formed frames
ValidFrames == { RawFrame(PayloadOf(f)) : f \in ValidDeltas }

\* C2: a valid frame cut at any byte offset into two chunks yields exactly
\* one delta, the delta that the unsplit frame yields, and leaves the buffer
\* empty.
C2_FragmentationTolerance ==
    (/\ response_bytes \in ValidFrames
     /\ UnsplitDeltas(response_bytes) # << >>
     /\ nchunks = 2
     /\ res_stream = << >>
     /\ pc = "stream") =>
        /\ Len(decoded) = 1
        /\ decoded = UnsplitDeltas(response_bytes)
        /\ partial_message = << >>

\* C4: a well-formed frame whose prefix has been removed decodes to the
\* turn_id, role and content of its source JSON.
C4_PrefixStripping ==
    \A f \in ValidDeltas :
        (/\ response_bytes = RawFrame(PayloadOf(f))
         /\ raw_res = response_bytes
         /\ idx = 1) =>
            decoded = << f >>

\* a frame the splitter is to drop: empty, no longer than the prefix, or
\* the sentinel itself
DroppedBySpec(r) == r = << >> \/ Len(r) <= Len(SSE_PREFIX) \/ r = SentinelFrame

\* C5: the candidates of a chunk are its frames in split order, less those
\* that are empty, too short for a prefix, or equal to the sentinel.
C5_SplitterFilter ==
    responses =
        SelectSeq(Split(raw_res, EVENT_DELIMITER), LAMBDA r : ~DroppedBySpec(r))

\* the conversation changes at its tail only: nothing, or more text at the
\* end of the last message, or one message more
TailChange(c, c2) ==
    \/ c2 = c
    \/ /\ c # << >>
       /\ Len(c2) = Len(c)
       /\ \A i \in 1..(Len(c) - 1) : c2[i] = c[i]
       /\ Last(c2).id = Last(c).id
       /\ Last(c2).role = Last(c).role
       /\ Len(Last(c2).content) >= Len(Last(c).content)
       /\ SubSeq(Last(c2).content, 1, Len(Last(c).content)) = Last(c).content
    \/ /\ Len(c2) = Len(c) + 1
       /\ SubSeq(c2, 1, Len(c)) = c

\* a step that carries out the reset command
ResetStep == message = << >> /\ ReadLine(RESET_COMMAND)

\* C7: every step but a reset changes the conversation at its tail only.
C7_TailOnly == [][~ResetStep => TailChange(conversation, conversation')]_vars

\* the second turn's assistant message grows behind two closed messages
C7_Witness ==
    /\ turns = 2
    /\ Len(conversation) = 4
    /\ conversation[2].id = ID_A
    /\ conversation[4].content = << "H", "H" >>

\* C8: when get_completion fails the process goes on: the conversation is
\* kept and the client is back at the prompt.
C8_ErrorSurvived ==
    [][(pc = "request" /\ pc' # "stream") =>
        (pc' = "prompt" /\ conversation' = conversation)]_vars

\* C9: a response that ends while the buffer holds a fragment has had a
\* report printed before the client is back at the prompt.
C9_LeftoverReported ==
    [][(pc = "stream" /\ pc' = "prompt" /\ partial_message # << >>) =>
        warnings > 0]_vars

\* C10: the line "reset\n" read with no pending input empties the
\* conversation and the input buffer and leaves the client at the prompt.
C10_ResetCommand ==
    [][(message = << >> /\ ReadLine(RESET_COMMAND \o << NL >>)) =>
        (conversation' = << >> /\ message' = << >> /\ pc' = "prompt")]_vars

\* the token file of a folder can be read
TokenReadable(folder) ==
    TokenFileAt(file_system, folder).exists /\ TokenFileAt(file_system, folder).readable

\* a folder with a name of its own that does not exist
FolderMissing(folder) == folder # EMPTY_PATH /\ ~exists(file_system, folder)

\* C11: get_openai_api_key returns the value of the environment variable
\* whenever it is set, whatever the folder holds; with the variable unset it
\* returns the content of the folder's token file when that file exists and
\* can be read, and None when the folder is missing or the file is missing
\* or cannot be read.
C11_KeyPrecedence ==
    call.op = "get" =>
        /\ env_var.some => key_result = SomeStr(env_var.v)
        /\ (~env_var.some /\ TokenReadable(call.folder)) =>
               key_result = SomeStr(TokenFileAt(file_system, call.folder).content)
        /\ (~env_var.some /\ (FolderMissing(call.folder) \/ ~TokenReadable(call.folder))) =>
               key_result = NoneStr

\* the variable is set while the folder holds a readable file with another
\* key, and the variable's value was returned
C11_Witness ==
    /\ call.op = "get"
    /\ env_var.some
    /\ TokenReadable(call.folder)
    /\ TokenFileAt(file_system, call.folder).content # env_var.v
    /\ key_result = SomeStr(env_var.v)

\* the folder exists or can be created
FolderAvailable(folder) ==
    exists(file_system, folder) \/ create_dir(file_system, folder).ok

\* a get on the folder that was just saved to, with the variable unset
GetAfterSave(folder) ==
    /\ call.op = "save"
    /\ call.folder = folder
    /\ save_result = "Ok"
    /\ ~env_var.some
    /\ GetKey(folder)

\* C12 as stated: a save on a folder that exists or can be created returns
\* Ok and leaves the folder with a token file holding the key, which a get
\* that follows returns; a save on a folder that cannot be created returns
\* an error and leaves the file system alone.
C12_SaveRoundTrip ==
    [][\A folder \in Folders :
          /\ \A k \in Keys :
                SaveKey(folder, k) =>
                    /\ FolderAvailable(folder) =>
                           /\ save_result' = "Ok"
                           /\ exists(file_system', folder)
                           /\ TokenFileAt(file_system', folder) # NoFile
                           /\ TokenFileAt(file_system', folder).content = k
                    /\ ~FolderAvailable(folder) =>
                           /\ save_result' = "Err"
                           /\ file_system' = file_system
          /\ GetAfterSave(folder) => key_result' = SomeStr(call.key)]_vars

\* the token file is absent or may be written
TokenWritable(folder) ==
    ~TokenFileAt(file_system, folder).exists \/ TokenFileAt(file_system, folder).writable

\* C12: a save on a folder that exists or can be created, whose token file
\* is absent or may be written, returns Ok and leaves the folder with a
\* token file holding the key, which a get that follows returns when the
\* file can be read; a save on a folder that cannot be created returns an
\* error and leaves the file system alone.
C12_SaveRoundTripWritable ==
    [][\A folder \in Folders :
          /\ \A k \in Keys :
                SaveKey(folder, k) =>
                    /\ (FolderAvailable(folder) /\ TokenWritable(folder)) =>
                           /\ save_result' = "Ok"
                           /\ exists(file_system', folder)
                           /\ TokenFileAt(file_system', folder) # NoFile
                           /\ TokenFileAt(file_system', folder).content = k
                    /\ ~FolderAvailable(folder) =>
                           /\ save_result' = "Err"
                           /\ file_system' = file_system
          /\ (GetAfterSave(folder) /\ TokenReadable(folder)) =>
                 key_result' = SomeStr(call.key)]_vars

\* a save created the folder and a get returned the saved key
C12_Witness ==
    /\ call.op = "get"
    /\ call.folder = APP_FOLDER
    /\ save_result = "Ok"
    /\ ~env_var.some
    /\ key_result \in { SomeStr(k) : k \in Keys }
    /\ TokenFileAt(file_system, APP_FOLDER) = File(key_result.v, TRUE, TRUE)

\* the candidates of the current chunk the for loop has not visited
Unvisited == { i \in 1..Len(responses) : i > idx }

\* a candidate that decodes from its own text
ValidCandidate(response) ==
    LET d == from_str(ReplaceWithEmpty(response, SSE_PREFIX))
    IN  d.ok /\ Len(d.v.choices) > 0

\* C13: a candidate that fails to decode is appended to the buffer and the
\* candidates after it in the chunk are still attempted: once the loop
\* over a chunk is over, no candidate that is a complete valid frame is
\* left unvisited.
C13_LaterCandidatesAttempted ==
    pc = "stream" => \A i \in Unvisited : ~ValidCandidate(responses[i])

\* a pass of the for loop in which the candidate fails to decode
FailedDecode ==
    /\ pc = "frames"
    /\ ~from_str(ResponseData(responses[idx + 1], partial_message, idx)).ok

\* C14: the buffer's contents are taken and cleared when the prefix of a
\* chunk's first candidate is built, so a failed decode leaves the buffer
\* holding what it held followed by the candidate's own text, each fragment
\* since the last successful decode in arrival order and exactly once.
C14_FragmentsOnce ==
    [][FailedDecode =>
           partial_message' =
               partial_message \o ReplaceWithEmpty(responses[idx + 1], SSE_PREFIX)]_vars

\* a pass of the for loop in which the candidate decodes
SuccessfulDecode ==
    /\ pc = "frames"
    /\ from_str(ResponseData(responses[idx + 1], partial_message, idx)).ok

\* C15: immediately after every successful decode the buffer is empty, so
\* the candidate decoded next in the chunk has no earlier text in front.
C15_EmptyAfterDecode ==
    [][SuccessfulDecode =>
           /\ partial_message' = << >>
           /\ pc' = "frames" =>
                  ResponseData(responses'[idx' + 1], partial_message', idx')
                      = ReplaceWithEmpty(responses'[idx' + 1], SSE_PREFIX)]_vars

\* a candidate that does not decode from its own text was decoded with the
\* buffered text in front, and the buffer is empty
C15_Witness ==
    /\ pc = "stream"
    /\ nchunks > 1
    /\ idx = 1
    /\ Len(decoded) = 1
    /\ ~ValidCandidate(responses[1])
    /\ partial_message = << >>

\* the text of the candidate the for loop visits next, prefix removed
OwnText == ReplaceWithEmpty(responses[idx + 1], SSE_PREFIX)

\* the text C16 says is decoded: the buffer in front of the chunk's first
\* surviving candidate, the candidate's own text for every later one
TextToDecode == IF idx = 0 THEN partial_message \o OwnText ELSE OwnText

\* C16: when the buffer holds a fragment at the start of a chunk, only the
\* first candidate that survived the filter is decoded with the buffer in
\* front; every later candidate of the chunk is decoded from its own text.
\* The outcome of each pass is that of decoding this text: a delta merged,
\* or the text appended to the buffer.
C16_PrefixFirstOnly ==
    [][pc = "frames" =>
           LET d == from_str(TextToDecode)
           IN  IF d.ok /\ Len(d.v.choices) > 0
               THEN /\ Len(decoded') = Len(decoded) + 1
                    /\ Last(decoded') = [id |-> d.v.id,
                                         role |-> d.v.choices[1].role,
                                         content |-> d.v.choices[1].content]
                    /\ partial_message' = << >>
               ELSE IF d.ok
               THEN pc' = "panicked"
               ELSE /\ decoded' = decoded
                    /\ partial_message' = partial_message \o TextToDecode]_vars

\* the buffer held the head of the chunk's first candidate, which was
\* decoded with it, and the second candidate was decoded from its own text
C16_Witness ==
    /\ pc = "stream"
    /\ nchunks > 1
    /\ idx = 2
    /\ Len(decoded) = 2
    /\ ~ValidCandidate(responses[1])
    /\ ValidCandidate(responses[2])
    /\ partial_message = << >>

\* the bytes of the response that came in chunks before the current one
EarlierChunks ==
    SubSeq(response_bytes, 1, Len(response_bytes) - Len(res_stream) - Len(raw_res))

\* the earlier chunks of this response held a frame of the turn and, after
\* it, the sentinel event
SentinelObserved ==
    \E d \in { DeltaA, DeltaA2 } :
        /\ decoded # << >>
        /\ decoded[1] = d
        /\ Contains(EarlierChunks, RawFrame(PayloadOf(d)) \o SentinelEvent)

\* a pass of the for loop that merges a delta into the last message
ExtendsLastMessage ==
    /\ MergeStep
    /\ Len(conversation') = Len(conversation)

\* C17: the sentinel closes the turn: once the sentinel event of a response
\* has been observed, no later delta of that response is merged into the
\* message of the turn.
C17_SentinelCloses ==
    [][SentinelObserved => ~ExtendsLastMessage]_vars

\* C18: no frame content aborts the response loop or the process: every
\* candidate is either decoded and merged or absorbed into the buffer, a
\* frame whose choices list is empty included.
C18_NoFrameAborts == pc # "panicked"

\* the first character of s that is no JSON whitespace, "" when there is none
FirstNonWs(s, from) ==
    LET rest == { i \in from..Len(s) : s[i] \notin WS }
    IN  IF rest = {} THEN ""
        ELSE s[CHOOSE i \in rest : \A j \in rest : i <= j]

\* a text that no continuation turns into a document from_str accepts: it
\* does not open an object or an array, or it opens an object and goes on
\* with something other than a key or the closing brace
Undecodable(s) ==
    \/ FirstNonWs(s, 1) \notin { "", "{", "[" }
    \/ /\ s # << >>
       /\ s[1] = "{"
       /\ FirstNonWs(s, 2) \notin { "", Q, "}" }

\* C19: once the buffer holds text that is a prefix of no decodable frame,
\* every later first candidate is decoded with that text in front and
\* fails: for the rest of the response no delta is merged and the buffer
\* never gets shorter.
C19_PoisonedBufferStays ==
    [][(Undecodable(partial_message) /\ pc \in { "stream", "frames" } /\ pc' # "prompt") =>
           /\ pc' # "panicked"
           /\ decoded' = decoded
           /\ conversation' = conversation
           /\ Len(partial_message') >= Len(partial_message)
           /\ Undecodable(partial_message')]_vars

\* a candidate that decodes from its own text came first in a later chunk
\* and was not decoded: the buffer in front of it was undecodable
C19_Witness ==
    /\ pc = "stream"
    /\ nchunks > 1
    /\ idx = 1
    /\ ValidCandidate(responses[1])
    /\ decoded = << >>
    /\ Undecodable(partial_message)
    /\ Len(partial_message) > Len(responses[1])

\* no candidate of the response has been given to the decoder yet
BeforeFirstCandidate ==
    \/ pc = "stream" /\ nchunks = 0
    \/ pc = "frames" /\ nchunks = 1 /\ idx = 0

\* C20: the buffer is empty when a response stream starts, whatever the
\* responses before it left, so the first candidate of a response is
\* decoded with nothing of an earlier response in front.
C20_BufferStartsEmpty ==
    BeforeFirstCandidate =>
        /\ partial_message = << >>
        /\ pc = "frames" =>
               ResponseData(responses[1], partial_message, idx)
                   = ReplaceWithEmpty(responses[1], SSE_PREFIX)

\* the second response starts after a first one whose frames were all
\* left in the buffer
C20_Witness ==
    /\ pc = "stream"
    /\ nchunks = 0
    /\ turns = 2
    /\ Len(conversation) = 2
    /\ conversation[1].role = User
    /\ conversation[2].role = User
    /\ res_stream # << >>
    /\ leftover
    /\ partial_message = << >>

====
